---- MODULE Spec2Model ----
(***************************************************************************)
(* Lazy and Thunk wrappers of cpp-thunk.                                   *)
(*                                                                         *)
(*   fn   : Thunk of thunk.cc (std::function based, closure captures this) *)
(*   var  : Thunk of thunk_lambda.cc (std::variant<Lambda, Result>)        *)
(*   lazy : Lazy of lazy.cc / lazy_functionless.cc                         *)
(*                                                                         *)
(* Objects live at addresses 1..MaxObj.  A closure stored in a             *)
(* std::function is a value: copying the std::function copies the closure, *)
(* captured `this` pointer included.                                       *)
(***************************************************************************)
EXTENDS Integers, FiniteSets, Sequences, TLC

\* ---------------------------------------------------------------- bounds
MaxObj == 3      \* addresses available for wrapper objects
MaxObs == 3      \* observations made in one run
MaxFail == 1     \* K: leading invocations of the flaky computation that throw
MaxDepth == 1    \* nesting depth of operator+ closures
NumThreads == 2  \* threads observing one Thunk concurrently

Addr == 1..MaxObj

\* ------------------------------------------------- wrapped computations
\* Zero-argument callables handed to the wrappers.  Each has a call counter
\* captured by reference (calls); the outcome of a call is a function of
\* the call number.
Comps == {"fourtytwo", "sixtynine", "counter", "flaky"}

\* number of leading calls of c that throw
FailFirst(c) == IF c = "flaky" THEN MaxFail ELSE 0

\* value returned by the n-th call of c
Value(c, n) ==
  CASE c = "fourtytwo" -> 42
    [] c = "sixtynine" -> 69
    [] c = "counter"   -> n
    [] OTHER           -> 7

\* ------------------------------------------------------------ values
NoObj == [kind |-> "none"]
NoLambda == [tag |-> "none"]

\* a lambda handed to a wrapper: a user computation ...
UserLambda(c) == [tag |-> "user", id |-> c]
\* ... or the closure built by operator+, holding copies of both operands
PlusLambda(l, r) == [tag |-> "plus", lhs |-> l, rhs |-> r]

\* thunk.cc: d_lambda holds the closure [=, this]{...} of the constructor
FnClosure(L, a) == [kind |-> "fn", tag |-> "closure", lambda |-> L, this |-> a, res |-> 0]
\* thunk.cc: d_lambda holds [=]{ return res; }
FnCached(v) == [kind |-> "fn", tag |-> "cached", lambda |-> NoLambda, this |-> 0, res |-> v]
\* thunk_lambda.cc: d_thunk holds the Lambda alternative
VarLambda(L) == [kind |-> "var", tag |-> "lambda", lambda |-> L, this |-> 0, res |-> 0]
\* thunk_lambda.cc: d_thunk holds the Result alternative
VarResult(v) == [kind |-> "var", tag |-> "result", lambda |-> NoLambda, this |-> 0, res |-> v]
\* lazy.cc: d_lambda
LazyObj(L) == [kind |-> "lazy", tag |-> "lambda", lambda |-> L, this |-> 0, res |-> 0]
\* thunk.cc: d_lambda after std::function's move constructor emptied it
FnEmpty == [kind |-> "fn", tag |-> "empty", lambda |-> NoLambda, this |-> 0, res |-> 0]
\* storage of an object whose lifetime has ended
DeadObj == [kind |-> "dead"]

\* Pending / Computed of the memoized value's slot
IsPending(o) == o.kind \in {"fn", "var"} /\ o.tag \in {"closure", "lambda"}
IsComputed(o) == o.kind \in {"fn", "var"} /\ o.tag \in {"cached", "result"}

RECURSIVE Depth(_)
Depth(o) ==
  IF o.tag \in {"cached", "result"} \/ o.lambda.tag # "plus" THEN 0
  ELSE LET dl == Depth(o.lambda.lhs)
           dr == Depth(o.lambda.rhs)
       IN 1 + (IF dl > dr THEN dl ELSE dr)

\* Each source file is a program of its own and the two Thunk templates share
\* one name, so a run uses one of them: impl is the wrapper the program uses.
Impls == {"fn", "var", "lazy"}

VARIABLES impl, heap, nalloc, calls, hist, last, nobs, terminated,
          dead,   \* addresses of the objects destroyed so far
          thr,    \* the threads observing one Thunk concurrently
          twin    \* the same program run with the Thunk of thunk_lambda.cc

vars == <<impl, heap, nalloc, calls, hist, last, nobs, terminated, dead, thr, twin>>

\* state used only by the specifications of object lifetime, of concurrent
\* observation and of the comparison of the two Thunk templates
aux == <<dead, thr, twin>>

\* ------------------------------------------------------- evaluation
\* A call of the user computation c: the captured counter is incremented,
\* then the call throws or returns.
InvokeUser(c, cnt) ==
  LET n == cnt[c] + 1
  IN [calls |-> [cnt EXCEPT ![c] = n],
      ok    |-> n > FailFirst(c),
      val   |-> IF n > FailFirst(c) THEN Value(c, n) ELSE 0]

RECURSIVE ThunkCall(_, _)

\* the closure of operator+ with `return tmp_lhs + tmp_lhs;`
PlusThunkBodyLhsTwice(L, st) ==
  LET r1 == ThunkCall(L.lhs, st)
  IN IF ~r1.ok THEN r1
     ELSE LET r2 == ThunkCall(L.rhs, [heap |-> r1.heap, calls |-> r1.calls])
          IN IF ~r2.ok THEN r2
             ELSE [r2 EXCEPT !.val = r1.val + r1.val]

\* the closure of operator+ with the two operand statements swapped
PlusThunkBodyRhsFirst(L, st) ==
  LET r1 == ThunkCall(L.rhs, st)
  IN IF ~r1.ok THEN r1
     ELSE LET r2 == ThunkCall(L.lhs, [heap |-> r1.heap, calls |-> r1.calls])
          IN IF ~r2.ok THEN r2
             ELSE [r2 EXCEPT !.val = r2.val + r1.val]

\* body of the closure of operator+(Thunk, Thunk): lhs first, then rhs;
\* an exception of lhs leaves before rhs is touched.
PlusThunkBody(L, st) ==
  LET r1 == ThunkCall(L.lhs, st)
  IN IF ~r1.ok THEN r1
     ELSE LET r2 == ThunkCall(L.rhs, [heap |-> r1.heap, calls |-> r1.calls])
          IN IF ~r2.ok THEN r2
             ELSE [r2 EXCEPT !.val = r1.val + r2.val]

\* lambda() inside the constructor's closure
CallLambda(L, st) ==
  IF L.tag = "user"
  THEN LET r == InvokeUser(L.id, st.calls)
       IN [heap |-> st.heap, calls |-> r.calls, ok |-> r.ok, val |-> r.val, ran |-> 1]
  ELSE PlusThunkBody(L, st)

\* d_lambda() of a Thunk of thunk.cc, d being the std::function's target.
\* The constructor's closure runs lambda, then assigns this->d_lambda, where
\* `this` is the pointer the closure captured when it was built.
ThunkCall(d, st) ==
  IF d.tag = "cached"
  THEN [heap |-> st.heap, calls |-> st.calls, ok |-> TRUE, val |-> d.res, ran |-> 0]
  ELSE IF d.tag = "empty"   \* std::bad_function_call
  THEN [heap |-> st.heap, calls |-> st.calls, ok |-> FALSE, val |-> 0, ran |-> 0]
  ELSE LET r == CallLambda(d.lambda, st)
       IN IF ~r.ok
          THEN [r EXCEPT !.ran = 1]
          ELSE [r EXCEPT !.heap[d.this] = FnCached(r.val), !.ran = 1]

\* Thunk::visit of thunk_lambda.cc on the object at address a: the Result
\* alternative is returned, the Lambda alternative is called and, when it
\* returns, replaced by its result in this object's own d_thunk.
Visit(a, st) ==
  LET d == st.heap[a]
  IN IF d.tag = "result"
     THEN [heap |-> st.heap, calls |-> st.calls, ok |-> TRUE, val |-> d.res, ran |-> 0]
     ELSE LET r == InvokeUser(d.lambda.id, st.calls)
          IN [heap |-> IF r.ok THEN [st.heap EXCEPT ![a] = VarResult(r.val)] ELSE st.heap,
              calls |-> r.calls, ok |-> r.ok, val |-> r.val, ran |-> 1]

RECURSIVE LazyCall(_, _)

\* a Lazy that keeps the first result of its computation
LazyCallOnce(L, cnt) ==
  IF L.tag = "user"
  THEN IF cnt[L.id] > FailFirst(L.id)
       THEN {[calls |-> cnt, ok |-> TRUE, val |-> Value(L.id, cnt[L.id])]}
       ELSE {InvokeUser(L.id, cnt)}
  ELSE LET Seq2(a, b) ==
             UNION { IF ~r1.ok THEN {r1}
                     ELSE { IF ~r2.ok THEN r2
                            ELSE [r2 EXCEPT !.val = r1.val + r2.val]
                            : r2 \in LazyCall(b.lambda, r1.calls) }
                     : r1 \in LazyCall(a.lambda, cnt) }
       IN Seq2(L.lhs, L.rhs) \cup Seq2(L.rhs, L.lhs)

\* d_lambda() of a Lazy: the set of outcomes, the two operands of the
\* built-in + in operator+(Lazy, Lazy) being evaluated in either order.
LazyCall(L, cnt) ==
  IF L.tag = "user"
  THEN {InvokeUser(L.id, cnt)}
  ELSE LET Seq2(a, b) ==
             UNION { IF ~r1.ok THEN {r1}
                     ELSE { IF ~r2.ok THEN r2
                            ELSE [r2 EXCEPT !.val = r1.val + r2.val]
                            : r2 \in LazyCall(b.lambda, r1.calls) }
                     : r1 \in LazyCall(a.lambda, cnt) }
       IN Seq2(L.lhs, L.rhs) \cup Seq2(L.rhs, L.lhs)

\* ------------------------------------------------------------ state
\* hist is the observer's notebook, not program state: per object, where it
\* came from (src: the object it was copied from; comp: the user computation
\* it was built from; lhs, rhs: the operands of the operator+ that built it;
\* born: its slot when created), whether it was copied or used as an operand
\* (shared), and what its observations did (obs, runs, nfail, rets).
NoThreads == <<>>
NoTwin == [heap |-> <<>>, calls |-> <<>>, outcome |-> "none", val |-> 0]

NoHist ==
  [src |-> 0, born |-> "none", comp |-> "", lhs |-> 0, rhs |-> 0, shared |-> FALSE,
   obs |-> 0, runs |-> 0, nfail |-> 0, rets |-> {}]

Init ==
  /\ impl \in Impls
  /\ heap = [a \in Addr |-> NoObj]
  /\ nalloc = 0
  /\ calls = [c \in Comps |-> 0]
  /\ hist = [a \in Addr |-> NoHist]
  /\ last = [op |-> "init", obj |-> 0, outcome |-> "none", val |-> 0]
  /\ nobs = 0
  /\ terminated = FALSE
  /\ dead = {}
  /\ thr = NoThreads
  /\ twin = NoTwin

Live == (1..nalloc) \ dead

\* place a newly constructed object at the next address; k is the result of
\* its constructor (the object and the call counters after construction),
\* h what the notebook records about its origin, used the objects it was
\* built from
Alloc(a, k, h, used, op) ==
  /\ ~terminated
  /\ nalloc < MaxObj
  /\ a = nalloc + 1
  /\ nalloc' = a
  /\ heap' = [heap EXCEPT ![a] = k.obj]
  /\ calls' = k.calls
  /\ hist' = [b \in Addr |->
                IF b = a
                THEN [h EXCEPT !.born = IF IsComputed(k.obj) THEN "computed" ELSE "pending"]
                ELSE IF b \in used THEN [hist[b] EXCEPT !.shared = TRUE]
                ELSE hist[b]]
  /\ last' = [op |-> op, obj |-> a, outcome |-> "none", val |-> 0]
  /\ UNCHANGED <<impl, nobs, terminated>>
  /\ UNCHANGED aux

\* a constructor that runs lambda at once and stores the result
ThunkCtorEager(a, L, cnt) ==
  IF L.tag = "user"
  THEN LET r == InvokeUser(L.id, cnt)
       IN [obj |-> IF r.ok THEN FnCached(r.val) ELSE FnClosure(L, a), calls |-> r.calls]
  ELSE [obj |-> FnClosure(L, a), calls |-> cnt]

\* Thunk::Thunk(std::function<Result()> lambda) of thunk.cc, reached through
\* make_thunk, THUNK, the thunk proxy or a direct Thunk<R>{...}: the object
\* built at address a, and the call counters, which it leaves alone
ThunkCtor(a, L, cnt) == [obj |-> FnClosure(L, a), calls |-> cnt]

MakeThunk(c) ==
  /\ impl = "fn"
  /\ \E a \in Addr :
       Alloc(a, ThunkCtor(a, UserLambda(c), calls), [NoHist EXCEPT !.comp = c], {}, "construct")

\* Thunk::Thunk(Lambda const &) of thunk_lambda.cc
VarThunkCtor(L, cnt) == [obj |-> VarLambda(L), calls |-> cnt]

MakeVarThunk(c) ==
  /\ impl = "var"
  /\ \E a \in Addr :
       Alloc(a, VarThunkCtor(UserLambda(c), calls), [NoHist EXCEPT !.comp = c], {}, "construct")

\* Lazy::Lazy(lambda)
LazyCtor(L, cnt) == [obj |-> LazyObj(L), calls |-> cnt]

MakeLazy(c) ==
  /\ impl = "lazy"
  /\ \E a \in Addr :
       Alloc(a, LazyCtor(UserLambda(c), calls), [NoHist EXCEPT !.comp = c], {}, "construct")

\* the defaulted copy constructors: member-wise copy
CopyCtor(o) == o

Copy(i) ==
  /\ i \in Live
  /\ \E a \in Addr :
       Alloc(a, [obj |-> CopyCtor(heap[i]), calls |-> calls],
             [NoHist EXCEPT !.src = i, !.comp = hist[i].comp,
                            !.lhs = hist[i].lhs, !.rhs = hist[i].rhs],
             {i}, "copy")

\* the closure [=]{...} of operator+: it holds a copy of each operand
PlusClosure(l, r) == PlusLambda(CopyCtor(l), CopyCtor(r))

\* operator+(Thunk const &lhs, Thunk const &rhs): make_thunk constructs the
\* result in place from the closure
PlusThunk(i, j) ==
  /\ i \in Live /\ j \in Live
  /\ heap[i].kind = "fn" /\ heap[j].kind = "fn"
  /\ Depth(heap[i]) < MaxDepth /\ Depth(heap[j]) < MaxDepth
  /\ \E a \in Addr :
       Alloc(a, ThunkCtor(a, PlusClosure(heap[i], heap[j]), calls),
             [NoHist EXCEPT !.lhs = i, !.rhs = j], {i, j}, "plus")

\* operator+(Lazy const &lhs, Lazy const &rhs)
PlusLazy(i, j) ==
  /\ i \in Live /\ j \in Live
  /\ heap[i].kind = "lazy" /\ heap[j].kind = "lazy"
  /\ Depth(heap[i]) < MaxDepth /\ Depth(heap[j]) < MaxDepth
  /\ \E a \in Addr :
       Alloc(a, LazyCtor(PlusClosure(heap[i], heap[j]), calls),
             [NoHist EXCEPT !.lhs = i, !.rhs = j], {i, j}, "plus")

\* bookkeeping of one observation of object i with result r
Observed(i, r) ==
  [hist EXCEPT ![i].obs = @ + 1,
               ![i].runs = @ + r.ran,
               ![i].nfail = @ + (IF r.ok THEN 0 ELSE 1),
               ![i].rets = IF r.ok THEN @ \cup {r.val} ELSE @]

\* Thunk::operator Result() of thunk.cc (also behind operator<<)
Observe(i) ==
  /\ ~terminated /\ nobs < MaxObs
  /\ i \in Live /\ heap[i].kind = "fn"
  /\ LET r == ThunkCall(heap[i], [heap |-> heap, calls |-> calls])
     IN /\ heap' = r.heap
        /\ calls' = r.calls
        /\ hist' = Observed(i, r)
        /\ last' = [op |-> "observe", obj |-> i,
                    outcome |-> IF r.ok THEN "value" ELSE "throw", val |-> r.val]
  /\ nobs' = nobs + 1
  /\ UNCHANGED <<impl, nalloc, terminated>>
  /\ UNCHANGED aux

\* whether operator Result() / visit() of thunk_lambda.cc are noexcept:
\* noexcept(noexcept(std::declval<Lambda>())) asks about declval itself
VisitIsNoexcept == TRUE

\* Thunk::operator Result() of thunk_lambda.cc
ObserveVar(i) ==
  /\ ~terminated /\ nobs < MaxObs
  /\ i \in Live /\ heap[i].kind = "var"
  /\ LET r == Visit(i, [heap |-> heap, calls |-> calls])
     IN /\ heap' = r.heap
        /\ calls' = r.calls
        /\ hist' = Observed(i, r)
        /\ terminated' = (~r.ok /\ VisitIsNoexcept)
        /\ last' = [op |-> "observe", obj |-> i,
                    outcome |-> IF r.ok THEN "value"
                                ELSE IF VisitIsNoexcept THEN "terminate" ELSE "throw",
                    val |-> r.val]
  /\ nobs' = nobs + 1
  /\ UNCHANGED <<impl, nalloc>>
  /\ UNCHANGED aux

\* Lazy::operator Result() (also behind operator<<)
ObserveLazy(i) ==
  /\ ~terminated /\ nobs < MaxObs
  /\ i \in Live /\ heap[i].kind = "lazy"
  /\ \E r \in LazyCall(heap[i].lambda, calls) :
        /\ calls' = r.calls
        /\ hist' = Observed(i, [ok |-> r.ok, val |-> r.val, ran |-> 1])
        /\ last' = [op |-> "observe", obj |-> i,
                    outcome |-> IF r.ok THEN "value" ELSE "throw", val |-> r.val]
  /\ nobs' = nobs + 1
  /\ UNCHANGED <<impl, heap, nalloc, terminated>>
  /\ UNCHANGED aux

Next ==
  \/ \E c \in Comps : MakeThunk(c)
  \/ \E c \in Comps : MakeVarThunk(c)
  \/ \E c \in Comps : MakeLazy(c)
  \/ \E i \in Addr : Copy(i)
  \/ \E i, j \in Addr : PlusThunk(i, j)
  \/ \E i, j \in Addr : PlusLazy(i, j)
  \/ \E i \in Addr : Observe(i)
  \/ \E i \in Addr : ObserveVar(i)
  \/ \E i \in Addr : ObserveLazy(i)

Spec == Init /\ [][Next]_vars

\* ------------------------------------------------- object lifetime
\* the state std::function's / std::variant's move constructor may leave its
\* source in: std::function is valid but unspecified (emptied, or still
\* holding its target); the variant keeps its alternative
MovedFrom(o) == IF o.kind = "fn" THEN {FnEmpty, o} ELSE {o}

\* Thunk(Thunk &&) = default: the new object takes the source's d_lambda /
\* d_thunk as it is, the closure's captured `this` included
MoveCtor(o) == o

Move(i) ==
  /\ ~terminated /\ nalloc < MaxObj
  /\ i \in Live /\ heap[i].kind \in {"fn", "var"}
  /\ \E m \in MovedFrom(heap[i]) :
       /\ nalloc' = nalloc + 1
       /\ heap' = [heap EXCEPT ![nalloc + 1] = MoveCtor(heap[i]), ![i] = m]
       /\ hist' = [hist EXCEPT ![nalloc + 1] =
                     [NoHist EXCEPT !.src = i, !.comp = hist[i].comp,
                                    !.lhs = hist[i].lhs, !.rhs = hist[i].rhs,
                                    !.born = IF IsPending(heap[i]) THEN "moved_pending"
                                             ELSE "moved_other"],
                                ![i].shared = TRUE]
       /\ last' = [op |-> "move", obj |-> nalloc + 1, outcome |-> "none", val |-> 0]
  /\ UNCHANGED <<impl, calls, nobs, terminated>>
  /\ UNCHANGED aux

\* the end of an object's lifetime (end of its scope, or of the full
\* expression for a temporary)
Destroy(i) ==
  /\ ~terminated
  /\ i \in Live
  /\ dead' = dead \cup {i}
  /\ heap' = [heap EXCEPT ![i] = DeadObj]
  /\ last' = [op |-> "destroy", obj |-> i, outcome |-> "none", val |-> 0]
  /\ UNCHANGED <<impl, nalloc, calls, hist, nobs, terminated, thr, twin>>

\* the addresses of destroyed objects that an evaluation ending in heap h
\* has written to
WildWrites(h) == {a \in dead : h[a] # DeadObj}

\* An observation (operator Result or operator T) of a Thunk of thunk.cc
\* that writes through a dangling `this` has undefined behaviour.  Observe gives the outcome in which the
\* write lands in the dead storage and the call returns; this is the outcome
\* in which the program crashes.
ObserveDangling(i) ==
  /\ ~terminated /\ nobs < MaxObs
  /\ i \in Live /\ heap[i].kind = "fn"
  /\ LET r == ThunkCall(heap[i], [heap |-> heap, calls |-> calls])
     IN /\ WildWrites(r.heap) # {}
        /\ calls' = r.calls
        /\ hist' = [hist EXCEPT ![i].obs = @ + 1, ![i].runs = @ + r.ran]
        /\ last' = [op |-> "observe", obj |-> i, outcome |-> "terminate", val |-> 0]
  /\ terminated' = TRUE
  /\ nobs' = nobs + 1
  /\ UNCHANGED <<impl, heap, nalloc>>
  /\ UNCHANGED aux

\* Thunk::operator T() of thunk.cc: static_cast<T>(d_lambda()); convOk tells
\* whether the conversion from Result to T returns or throws
Convert(i, convOk) ==
  /\ ~terminated /\ nobs < MaxObs
  /\ i \in Live /\ heap[i].kind = "fn"
  /\ LET r == ThunkCall(heap[i], [heap |-> heap, calls |-> calls])
     IN /\ heap' = r.heap
        /\ calls' = r.calls
        /\ hist' = Observed(i, [r EXCEPT !.ok = r.ok /\ convOk])
        /\ last' = [op |-> "convert", obj |-> i,
                    outcome |-> IF ~r.ok THEN "throw"
                                ELSE IF convOk THEN "value" ELSE "convthrow",
                    val |-> r.val]
  /\ nobs' = nobs + 1
  /\ UNCHANGED <<impl, nalloc, terminated>>
  /\ UNCHANGED aux

\* Thunk::operator T() of thunk_lambda.cc: static_cast<T>(operator Result());
\* it is noexcept only if the conversion is, so a throwing conversion
\* propagates, while a throwing lambda ends inside operator Result()
ConvertVar(i, convOk) ==
  /\ ~terminated /\ nobs < MaxObs
  /\ i \in Live /\ heap[i].kind = "var"
  /\ LET r == Visit(i, [heap |-> heap, calls |-> calls])
     IN /\ heap' = r.heap
        /\ calls' = r.calls
        /\ hist' = Observed(i, [r EXCEPT !.ok = r.ok /\ convOk])
        /\ terminated' = (~r.ok /\ VisitIsNoexcept)
        /\ last' = [op |-> "convert", obj |-> i,
                    outcome |-> IF ~r.ok
                                THEN (IF VisitIsNoexcept THEN "terminate" ELSE "throw")
                                ELSE IF convOk THEN "value" ELSE "convthrow",
                    val |-> r.val]
  /\ nobs' = nobs + 1
  /\ UNCHANGED <<impl, nalloc>>
  /\ UNCHANGED aux

InitLife == Init /\ impl \in {"fn", "var"}

NextLife ==
  \/ \E c \in Comps : MakeThunk(c)
  \/ \E c \in Comps : MakeVarThunk(c)
  \/ \E i \in Addr : Copy(i)
  \/ \E i \in Addr : Move(i)
  \/ \E i \in Addr : Destroy(i)
  \/ \E i, j \in Addr : PlusThunk(i, j)
  \/ \E i \in Addr : Observe(i)
  \/ \E i \in Addr : ObserveDangling(i)
  \/ \E i \in Addr : ObserveVar(i)
  \/ \E i \in Addr, convOk \in BOOLEAN : Convert(i, convOk)
  \/ \E i \in Addr, convOk \in BOOLEAN : ConvertVar(i, convOk)

SpecLife == InitLife /\ [][NextLife]_vars

\* ------------------------------------------- concurrent observation
\* Several threads call operator Result() on the one Thunk at address 1 with
\* no synchronisation.  A call is the steps the code makes one after the
\* other: look at the slot, call the lambda, store the result.
Threads == 1..NumThreads

Idle == [pc |-> "idle", id |-> "", ok |-> TRUE, val |-> 0]

InitRace ==
  /\ impl \in {"fn", "var"}
  /\ \E c \in Comps :
       /\ heap = [a \in Addr |->
                    IF a = 1
                    THEN IF impl = "fn" THEN ThunkCtor(1, UserLambda(c), [x \in Comps |-> 0]).obj
                         ELSE VarThunkCtor(UserLambda(c), [x \in Comps |-> 0]).obj
                    ELSE NoObj]
       /\ hist = [a \in Addr |->
                    IF a = 1 THEN [NoHist EXCEPT !.comp = c, !.born = "pending"] ELSE NoHist]
  /\ nalloc = 1
  /\ calls = [c \in Comps |-> 0]
  /\ last = [op |-> "construct", obj |-> 1, outcome |-> "none", val |-> 0]
  /\ nobs = 0
  /\ terminated = FALSE
  /\ dead = {}
  /\ thr = [t \in Threads |-> Idle]
  /\ twin = NoTwin

\* the call a thread that found the slot Pending makes with the slot guarded
\* (looked at again under a lock)
RaceInvokeGuarded(o, c, cnt) ==
  IF IsComputed(o) THEN [calls |-> cnt, ok |-> TRUE, val |-> o.res]
  ELSE InvokeUser(c, cnt)

\* the call a thread that found the slot Pending makes: lambda() / arg(),
\* whatever the slot o holds by now
RaceInvoke(o, c, cnt) == InvokeUser(c, cnt)

\* std::function::operator() on d_lambda / std::visit on d_thunk: the thread
\* finds the cached result, or the lambda still to be called
RaceLook(t) ==
  /\ ~terminated /\ nobs < MaxObs
  /\ thr[t].pc = "idle"
  /\ thr' = [thr EXCEPT ![t] =
               IF IsComputed(heap[1])
               THEN [pc |-> "done", id |-> "", ok |-> TRUE, val |-> heap[1].res]
               ELSE [pc |-> "call", id |-> heap[1].lambda.id, ok |-> TRUE, val |-> 0]]
  /\ nobs' = nobs + 1
  /\ UNCHANGED <<impl, heap, nalloc, calls, hist, last, terminated, dead, twin>>

\* Result res = lambda();  /  Result res = arg();
RaceCall(t) ==
  /\ ~terminated
  /\ thr[t].pc = "call"
  /\ LET r == RaceInvoke(heap[1], thr[t].id, calls)
     IN /\ calls' = r.calls
        /\ thr' = [thr EXCEPT ![t] =
                     [pc |-> IF r.ok THEN "store" ELSE "done",
                      id |-> thr[t].id, ok |-> r.ok, val |-> r.val]]
        /\ terminated' = (~r.ok /\ impl = "var" /\ VisitIsNoexcept)
  /\ UNCHANGED <<impl, heap, nalloc, hist, last, nobs, dead, twin>>

\* d_lambda = [=]{ return res; };  /  d_thunk.emplace<Result>(res);
RaceStore(t) ==
  /\ ~terminated
  /\ thr[t].pc = "store"
  /\ heap' = [heap EXCEPT ![1] = IF impl = "fn" THEN FnCached(thr[t].val)
                                 ELSE VarResult(thr[t].val)]
  /\ thr' = [thr EXCEPT ![t].pc = "done"]
  /\ UNCHANGED <<impl, nalloc, calls, hist, last, nobs, terminated, dead, twin>>

\* return res;  the caller has its value or its exception
RaceReturn(t) ==
  /\ ~terminated
  /\ thr[t].pc = "done"
  /\ last' = [op |-> "observe", obj |-> 1,
              outcome |-> IF thr[t].ok THEN "value" ELSE "throw", val |-> thr[t].val]
  /\ hist' = [hist EXCEPT ![1].obs = @ + 1,
                          ![1].rets = IF thr[t].ok THEN @ \cup {thr[t].val} ELSE @]
  /\ thr' = [thr EXCEPT ![t] = Idle]
  /\ UNCHANGED <<impl, heap, nalloc, calls, nobs, terminated, dead, twin>>

\* Two threads inside the unsynchronised call, one of them about to write
\* the slot, is a data race: undefined behaviour.  Besides the interleavings
\* of the steps above, the program may crash.
DataRace ==
  \E t, u \in Threads :
    t # u /\ thr[t].pc = "store" /\ thr[u].pc \in {"call", "store"}

RaceCrash ==
  /\ ~terminated
  /\ DataRace
  /\ terminated' = TRUE
  /\ UNCHANGED <<impl, heap, nalloc, calls, hist, last, nobs, dead, thr, twin>>

NextRace ==
  \/ \E t \in Threads : RaceLook(t)
  \/ \E t \in Threads : RaceCall(t)
  \/ \E t \in Threads : RaceStore(t)
  \/ \E t \in Threads : RaceReturn(t)
  \/ RaceCrash

SpecRace == InitRace /\ [][NextRace]_vars

\* ------------------------------------- the two Thunk templates compared
\* One sequence of constructions, copies, observations and conversions is
\* run twice: with the Thunk of thunk.cc (heap, calls, last) and with the
\* Thunk of thunk_lambda.cc (twin), each run with call counters of its own.
InitEquiv ==
  /\ Init
  /\ impl = "fn"

\* the run with thunk_lambda.cc before its first step
TwinState == IF twin = NoTwin
             THEN [heap |-> [a \in Addr |-> NoObj], calls |-> [c \in Comps |-> 0],
                   outcome |-> "none", val |-> 0]
             ELSE twin

\* make_thunk(lambda) in both runs
EqMake(c) ==
  /\ ~terminated /\ nalloc < MaxObj
  /\ LET a == nalloc + 1
         k == ThunkCtor(a, UserLambda(c), calls)
         v == VarThunkCtor(UserLambda(c), TwinState.calls)
     IN /\ nalloc' = a
        /\ heap' = [heap EXCEPT ![a] = k.obj]
        /\ calls' = k.calls
        /\ hist' = [hist EXCEPT ![a] = [NoHist EXCEPT !.comp = c, !.born = "pending"]]
        /\ last' = [op |-> "construct", obj |-> a, outcome |-> "none", val |-> 0]
        /\ twin' = [heap |-> [TwinState.heap EXCEPT ![a] = v.obj], calls |-> v.calls,
                    outcome |-> "none", val |-> 0]
  /\ UNCHANGED <<impl, nobs, terminated, dead, thr>>

\* Thunk(const Thunk &) in both runs
EqCopy(i) ==
  /\ ~terminated /\ nalloc < MaxObj
  /\ i \in Live
  /\ LET a == nalloc + 1
     IN /\ nalloc' = a
        /\ heap' = [heap EXCEPT ![a] = CopyCtor(heap[i])]
        /\ hist' = [hist EXCEPT ![a] =
                      [NoHist EXCEPT !.src = i, !.comp = hist[i].comp,
                                     !.born = IF IsComputed(heap[i]) THEN "computed"
                                              ELSE "pending"],
                                 ![i].shared = TRUE]
        /\ last' = [op |-> "copy", obj |-> a, outcome |-> "none", val |-> 0]
        /\ twin' = [heap |-> [TwinState.heap EXCEPT ![a] = CopyCtor(TwinState.heap[i])],
                    calls |-> TwinState.calls, outcome |-> "none", val |-> 0]
  /\ UNCHANGED <<impl, calls, nobs, terminated, dead, thr>>

\* operator Result() (convOk) or operator T() with a conversion that returns
\* (convOk) or throws (~convOk), in both runs
EqObserve(i, convOk) ==
  /\ ~terminated /\ nobs < MaxObs
  /\ i \in Live
  /\ LET r == ThunkCall(heap[i], [heap |-> heap, calls |-> calls])
         v == Visit(i, [heap |-> TwinState.heap, calls |-> TwinState.calls])
     IN /\ heap' = r.heap
        /\ calls' = r.calls
        /\ hist' = Observed(i, [r EXCEPT !.ok = r.ok /\ convOk])
        /\ last' = [op |-> "observe", obj |-> i,
                    outcome |-> IF ~r.ok THEN "throw"
                                ELSE IF convOk THEN "value" ELSE "convthrow",
                    val |-> r.val]
        /\ twin' = [heap |-> v.heap, calls |-> v.calls,
                    outcome |-> IF ~v.ok
                                THEN (IF VisitIsNoexcept THEN "terminate" ELSE "throw")
                                ELSE IF convOk THEN "value" ELSE "convthrow",
                    val |-> v.val]
        \* a run that ended in std::terminate makes no further step
        /\ terminated' = (~v.ok /\ VisitIsNoexcept)
  /\ nobs' = nobs + 1
  /\ UNCHANGED <<impl, nalloc, dead, thr>>

NextEquiv ==
  \/ \E c \in Comps : EqMake(c)
  \/ \E i \in Addr : EqCopy(i)
  \/ \E i \in Addr, convOk \in BOOLEAN : EqObserve(i, convOk)

SpecEquiv == InitEquiv /\ [][NextEquiv]_vars

\* ------------------------------------------------------------ claims
IsThunk(a) == a \in Live /\ heap[a].kind \in {"fn", "var"}

Min(x, y) == IF x < y THEN x ELSE y

\* a and b are a copy and the object it was copied from
CopyRelated(a, b) == hist[a].src = b \/ hist[b].src = a

\* a was copied, or is a copy
InCopyFamily(a) == hist[a].src # 0 \/ \E b \in Live : hist[b].src = a

\* some user computation threw during the step
RaisedInStep ==
  \E c \in Comps : \E n \in (calls[c] + 1)..calls'[c] : n <= FailFirst(c)

\* C1: a memoized value observed more than once (no observation failing) has
\* had its wrapped computation invoked at most once by those observations,
\* exactly once when it was created Pending and has never been copied or
\* used as an operand, and every observation returned the same value.
C1_SingleEvaluation ==
  \A a \in Live :
    (IsThunk(a) /\ hist[a].obs > 1 /\ hist[a].nfail = 0) =>
      /\ hist[a].runs <= 1
      /\ Cardinality(hist[a].rets) = 1
      /\ (hist[a].born = "pending" /\ hist[a].src = 0 /\ ~hist[a].shared)
            => hist[a].runs = 1

\* C2: a failed observation of a memoized value hands the failure to the
\* observer and leaves the slot Pending; a memoized value that alone invokes
\* a computation failing on its first K calls fails on its first K
\* observations, is Computed with the value from observation K+1 on, and has
\* invoked the computation min(n, K+1) times after n observations.
C2_RetryOnFailure ==
  /\ (last.op = "observe" /\ last.outcome # "value" /\ IsThunk(last.obj)) =>
        (last.outcome = "throw" /\ IsPending(heap[last.obj]))
  /\ \A a \in Live :
       (/\ IsThunk(a) /\ hist[a].comp # "" /\ hist[a].born = "pending"
        /\ calls[hist[a].comp] = hist[a].runs) =>
          LET c == hist[a].comp
              K == FailFirst(c)
              n == hist[a].obs
          IN /\ hist[a].nfail = Min(n, K)
             /\ hist[a].runs = Min(n, K + 1)
             /\ n > K => (IsComputed(heap[a]) /\ hist[a].rets = {Value(c, K + 1)})

\* C3: an observation during which the wrapped computation throws ends by
\* handing that error to its caller, and every observation ends either with
\* a value or with the error handed to its caller.
C3_FailurePropagation ==
  [][last'.op = "observe" =>
       /\ last'.outcome \in {"value", "throw"}
       /\ RaisedInStep <=> last'.outcome = "throw"]_vars

\* C4: among a memoized value and its copies, every instance created Pending
\* and observed (without failure) has invoked the computation exactly once,
\* and every instance created Computed has never invoked it.
C4_CopySemantics ==
  \A a \in Live :
    (IsThunk(a) /\ InCopyFamily(a) /\ hist[a].nfail = 0) =>
      IF hist[a].born = "pending"
      THEN hist[a].obs >= 1 => hist[a].runs = 1
      ELSE hist[a].runs = 0

\* C5: an observation of a memoized value leaves unchanged the slot of the
\* object it was copied from and of every copy made of it.
C5_CopiesDoNotAlias ==
  [][\A i \in Addr :
       (last'.op = "observe" /\ last'.obj = i /\ IsThunk(i)) =>
          \A j \in Live \ {i} : CopyRelated(i, j) => heap'[j] = heap[j]]_vars

\* C6: a slot that is Computed stays Computed with the same cached value.
C6_MonotonicSlot ==
  [][\A a \in Addr : IsComputed(heap[a]) => heap'[a] = heap[a]]_vars

\* C7: constructing a Lazy or a Thunk invokes no computation and leaves the
\* new wrapper unevaluated; a computation is invoked only by an observation.
C7_NoEvaluationOnConstruction ==
  [][/\ last'.op = "construct" =>
          (calls' = calls /\ ~IsComputed(heap'[last'.obj]))
     /\ (\E c \in Comps : calls'[c] # calls[c]) => last'.op = "observe"]_vars

C7_Witness ==
  /\ last.op = "construct" /\ impl = "fn" /\ nobs > 0
  /\ IsPending(heap[last.obj])
  /\ calls[hist[last.obj].comp] = 0

\* every computation below a is one whose value does not depend on the call
RECURSIVE ValueStable(_)
ValueStable(a) ==
  IF hist[a].lhs = 0 THEN hist[a].comp # "counter"
  ELSE ValueStable(hist[a].lhs) /\ ValueStable(hist[a].rhs)

\* the sum of the values of the computations below a
RECURSIVE SumOfOperands(_)
SumOfOperands(a) ==
  IF hist[a].lhs = 0 THEN Value(hist[a].comp, 1)
  ELSE SumOfOperands(hist[a].lhs) + SumOfOperands(hist[a].rhs)

\* a successful observation of a combined value has just returned the sum
\* of its operands' results
CombinedReturnsSum ==
  (/\ last.op = "observe" /\ last.outcome = "value"
   /\ hist[last.obj].lhs # 0 /\ ValueStable(last.obj))
     => last.val = SumOfOperands(last.obj)

\* C8: building a combined value with operator+ invokes no computation and
\* changes no operand; a successful observation of a combined value returns
\* the sum of its operands' results (42 and 69 give 111).
C8_LazyCombination ==
  [][/\ last'.op = "plus" =>
          (calls' = calls /\ \A a \in Live : heap'[a] = heap[a])
     /\ CombinedReturnsSum']_vars

C8_Witness ==
  /\ last.op = "observe" /\ last.outcome = "value" /\ last.val = 111
  /\ hist[last.obj].lhs # 0 /\ hist[last.obj].src = 0
  /\ hist[hist[last.obj].lhs].comp = "fourtytwo"
  /\ hist[hist[last.obj].rhs].comp = "sixtynine"
  /\ calls["fourtytwo"] = 1 /\ calls["sixtynine"] = 1

\* C9: once a combined memoized value has been observed (successfully), it is
\* Computed and so is each of its two operands.
C9_CombinationCachesOperands ==
  \A a \in Live :
    (/\ heap[a].kind = "fn" /\ hist[a].lhs # 0
     /\ hist[a].obs >= 1 /\ hist[a].nfail = 0) =>
       /\ IsComputed(heap[a])
       /\ IsComputed(heap[hist[a].lhs])
       /\ IsComputed(heap[hist[a].rhs])

\* C10: a computation (that does not fail) wrapped by one memoized value only,
\* which is never copied but used in any number of combined values, is
\* invoked at most once whatever is observed, and exactly once when that
\* memoized value itself has been observed.
C10_OnceAcrossCombinations ==
  impl = "fn" =>
    \A a \in Live :
      (/\ hist[a].comp # "" /\ FailFirst(hist[a].comp) = 0
       /\ Cardinality({b \in Live : hist[b].comp = hist[a].comp}) = 1) =>
         /\ calls[hist[a].comp] <= 1
         /\ hist[a].obs >= 1 => calls[hist[a].comp] = 1

\* C11: every observation of a Lazy built from a computation, or of a copy of
\* it, invokes that computation exactly once more and changes no wrapper.
C11_RecomputeEveryTime ==
  [][\A i \in Addr :
       (last'.op = "observe" /\ last'.obj = i /\ heap[i].kind = "lazy"
        /\ hist[i].comp # "") =>
          /\ heap' = heap
          /\ calls' = [calls EXCEPT ![hist[i].comp] = @ + 1]]_vars

C11_Witness ==
  /\ last.op = "observe" /\ heap[last.obj].kind = "lazy"
  /\ hist[last.obj].src # 0 /\ hist[last.obj].obs = 2
  /\ hist[hist[last.obj].src].obs = 1
  /\ calls[hist[last.obj].comp] = 3

\* the operand copy d held by a combined Thunk is Pending on a user
\* computation whose next call throws / returns
NextCallThrows(d) ==
  /\ d.tag = "closure" /\ d.lambda.tag = "user"
  /\ calls[d.lambda.id] + 1 <= FailFirst(d.lambda.id)
NextCallReturns(d) ==
  /\ d.tag = "closure" /\ d.lambda.tag = "user"
  /\ calls[d.lambda.id] + 1 > FailFirst(d.lambda.id)

\* C14: an observation of a Pending combined Thunk whose left operand's
\* computation throws invokes that computation only (not the right
\* operand's), fails and leaves the combined value Pending; when the left
\* operand's computation returns and the right one's throws, the left one
\* has been invoked.
C14_OperandOrder ==
  [][\A i \in Addr :
       (/\ last'.op = "observe" /\ last'.obj = i
        /\ heap[i].kind = "fn" /\ IsPending(heap[i])
        /\ heap[i].lambda.tag = "plus") =>
          LET l == heap[i].lambda.lhs
              r == heap[i].lambda.rhs
          IN /\ NextCallThrows(l) =>
                  /\ calls' = [calls EXCEPT ![l.lambda.id] = @ + 1]
                  /\ last'.outcome = "throw"
                  /\ heap' = heap
             /\ (/\ NextCallReturns(l) /\ NextCallThrows(r)
                 /\ l.lambda.id # r.lambda.id) =>
                  /\ calls'[l.lambda.id] = calls[l.lambda.id] + 1
                  /\ calls'[r.lambda.id] = calls[r.lambda.id] + 1
                  /\ last'.outcome = "throw"
                  /\ IsPending(heap'[i])]_vars

C14_Witness ==
  /\ last.op = "observe" /\ last.outcome = "throw"
  /\ heap[last.obj].kind = "fn" /\ IsPending(heap[last.obj])
  /\ heap[last.obj].lambda.tag = "plus"
  /\ heap[last.obj].lambda.lhs.lambda.id = "flaky"
  /\ heap[last.obj].lambda.rhs.tag = "closure"
  /\ heap[last.obj].lambda.rhs.lambda.id = "counter"
  /\ calls["flaky"] = 1 /\ calls["counter"] = 0

\* C15: when observations of a combined Thunk have failed on its right
\* operand after its left operand's computation (which never throws, is
\* wrapped by that operand only, the operand being used by this combined
\* value only and never observed directly) returned, that left computation has been invoked once, however often the
\* combined value is retried.
C15_RetryKeepsFinishedOperands ==
  \A a \in Live :
    (/\ heap[a].kind = "fn" /\ hist[a].lhs # 0 /\ hist[a].src = 0
     /\ hist[a].nfail >= 1) =>
       LET l  == hist[a].lhs
           cl == hist[l].comp
       IN (/\ cl # "" /\ FailFirst(cl) = 0 /\ hist[l].obs = 0
           /\ Cardinality({b \in Live : hist[b].comp = cl}) = 1
           /\ Cardinality({b \in Live : hist[b].lhs = l \/ hist[b].rhs = l}) = 1)
            => calls[cl] = 1

\* C13: after a conversion whose computation (or cache) delivered a result
\* and whose Result-to-T conversion threw, the slot of the converted
\* memoized value is Computed with that result.
C13_ConversionFailureKeepsCache ==
  (last.op = "convert" /\ last.outcome = "convthrow") =>
     /\ IsComputed(heap[last.obj])
     /\ heap[last.obj].res = last.val

\* C16: a Thunk move-constructed from a Pending Thunk has invoked the
\* computation at most once, and is Computed once an observation of it has
\* succeeded.
C16_MoveKeepsComputeOnce ==
  \A a \in Live :
    (IsThunk(a) /\ hist[a].born = "moved_pending") =>
       /\ hist[a].runs <= 1
       /\ hist[a].nfail < hist[a].obs => IsComputed(heap[a])

\* C17: no observation writes to the storage of a destroyed instance.
C17_NoWriteToDestroyed ==
  /\ \A a \in dead : heap[a] = DeadObj
  /\ ~(last.op = "observe" /\ last.outcome = "terminate" /\ impl = "fn")

\* C12: between a thread's finding the slot Pending and its calling the
\* computation nothing looks at the slot again: every thread that found the
\* slot Pending invokes the computation, also when another thread has made
\* the slot Computed in between.
C12_UnguardedFirstUse ==
  [][\A t \in Threads :
       (thr[t].pc = "call" /\ thr'[t].pc # "call") =>
          calls'[thr[t].id] = calls[thr[t].id] + 1]_vars

\* two threads found the same Thunk Pending and both invoked its computation
C12_Witness ==
  /\ \A t \in {1, 2} : thr[t].pc = "done" /\ thr[t].ok /\ thr[t].id = "counter"
  /\ thr[1].val # thr[2].val
  /\ calls["counter"] = 2
  /\ nobs = 2
  /\ IsComputed(heap[1])

\* C18: after every step of one sequence of operations run with both Thunk
\* templates, the two runs have invoked every computation equally often,
\* the step ended the same way with the same value in both, and the same
\* instances are Pending and Computed in both.
C18_TemplatesEquivalent ==
  twin # NoTwin =>
    /\ calls = twin.calls
    /\ last.outcome = twin.outcome
    /\ last.val = twin.val
    /\ \A a \in Live :
         /\ IsPending(heap[a]) <=> IsPending(twin.heap[a])
         /\ IsComputed(heap[a]) <=> IsComputed(twin.heap[a])

====
